---- MODULE Spec2Model ----
\* Staff PWA backend (staff_pwa.py): the /staff/api/action dispatcher, the
\* waiter's order creation and the role queues, over the persisted tables
\* Order, OrderStatus and OrderStatusHistory.  Every request runs in its own
\* ORM session: it loads rows, changes its in-session copy and only COMMIT
\* makes the changes visible to the other requests.
EXTENDS Integers, Sequences, FiniteSets, TLC

VARIABLES
    statuses,   \* OrderStatus table: id -> row (operator-defined configuration)
    orders,     \* committed Order table: id -> row
    history,    \* committed OrderStatusHistory rows, in insertion order
    reqs,       \* HTTP requests, in arrival order: the handler's position and session
    view        \* the last response of a read-only queue endpoint

vars == <<statuses, orders, history, reqs, view>>

-----------------------------------------------------------------------------
\* Bounds of the model

MaxReq == 2      \* requests handled in one run (they may all be in flight at once)
MaxCart == 2     \* entries in a submitted cart
MaxQty == 2      \* largest quantity of a cart entry
MaxItems == 2    \* items of an order shown in a queue
MaxOrders == 31  \* orders in the store when the general queue is read
MaxPhone == 3    \* characters of a submitted phone number

-----------------------------------------------------------------------------
\* Values

None == 0                 \* Python None / SQL NULL for a reference column (falsy)
FallbackStatusId == 1     \* status_id used when no "Новий" row exists

NameNew == "Novyi"              \* "Новий"
NameProcessing == "V obrobtsi"  \* "В обробці"
NameDelivered == "Dostavlenyi"  \* "Доставлений"
NameCancelled == "Skasovanyi"

\* Employee -> Role capability flags (get_current_staff resolves the cookie).
Employees ==
    [e \in {1, 2, 3} |->
        [can_serve_tables |-> e \in {1, 2},
         can_receive_kitchen_orders |-> e = 3,
         can_receive_bar_orders |-> e = 3,
         can_be_assigned |-> FALSE]]

EmployeeIds == DOMAIN Employees

\* Table rows with their assigned waiters (Table.assigned_waiters).
Tables == [t \in {1} |-> [assigned_waiters |-> {1}]]

\* Product rows: price in minor units, and the station that prepares the product.
Products ==
    [p \in {1, 2} |->
        [price |-> IF p = 1 THEN 5 ELSE 3,
         preparation_area |-> IF p = 1 THEN "kitchen" ELSE "bar"]]

OrderItem(pid, qty, price, area) ==
    [product_id |-> pid, quantity |-> qty, price_at_moment |-> price,
     preparation_area |-> area]

\* The columns of an Order row this module reads or writes.
OrderRow(status_id, table_id, accepted, pm, total, items) ==
    [status_id |-> status_id, table_id |-> table_id, courier_id |-> None,
     accepted_by_waiter_id |-> accepted, kitchen_done |-> FALSE, bar_done |-> FALSE,
     payment_method |-> pm, total_price |-> total, items |-> items]

NoOrder == OrderRow(None, None, None, "none", 0, <<>>)

StatusRow(name, completed, cancelled, chef, bartender) ==
    [name |-> name, is_completed_status |-> completed,
     is_cancelled_status |-> cancelled, visible_to_chef |-> chef,
     visible_to_bartender |-> bartender]

\* The OrderStatus configuration of a standard installation.
DefaultStatuses ==
    [s \in 1..4 |->
        CASE s = 1 -> StatusRow(NameNew, FALSE, FALSE, TRUE, TRUE)
          [] s = 2 -> StatusRow(NameProcessing, FALSE, FALSE, TRUE, TRUE)
          [] s = 3 -> StatusRow(NameDelivered, TRUE, FALSE, FALSE, FALSE)
          [] s = 4 -> StatusRow(NameCancelled, FALSE, TRUE, FALSE, FALSE)]

Restrict(f, S) == [x \in S |-> f[x]]

\* Status tables the operator may have configured: the standard one, one
\* without a "processing" and without a completed status, one without "Новий".
StatusConfigs ==
    {DefaultStatuses, Restrict(DefaultStatuses, {1, 4}), Restrict(DefaultStatuses, {2, 3, 4})}

SetMax(S) == CHOOSE x \in S : \A y \in S : y <= x

-----------------------------------------------------------------------------
\* Requests and their ORM session

\* A request that has not arrived yet.
Idle ==
    [pc |-> "idle", kind |-> "none", emp |-> None, oid |-> None, extra |-> "none",
     obj |-> NoOrder, snap |-> NoOrder, dirty |-> {}, hist |-> <<>>,
     resp |-> "none", links |-> 0, debts |-> 0, notify_failed |-> FALSE,
     committed |-> FALSE, cart |-> <<>>]

\* Assigning an attribute of a loaded object: the ORM marks the column dirty
\* only when the value differs from the loaded one.
SetAttr(q, col, val) ==
    IF q.obj[col] = val THEN q
    ELSE [q EXCEPT !.obj[col] = val, !.dirty = @ \cup {col}]

\* return JSONResponse(...) / the except branch: the handler ends with `resp`.
\* Whatever the session holds uncommitted is dropped with the session.
Respond(q, resp) ==
    [q EXCEPT !.pc = "done", !.resp = resp,
              !.obj = NoOrder, !.snap = NoOrder, !.dirty = {}, !.hist = <<>>]

\* session.add(OrderStatusHistory(...))
AddHistory(q, order_id, status_id) ==
    [q EXCEPT !.hist = Append(@, [order_id |-> order_id, status_id |-> status_id,
                                  actor |-> q.emp])]

\* cash_service.link_order_to_shift / register_employee_debt are awaited once.
LinkOrderToShift(q) == [q EXCEPT !.links = @ + 1]
RegisterEmployeeDebt(q) == [q EXCEPT !.debts = @ + 1]

\* select(OrderStatus).where(OrderStatus.name == name).limit(1): any matching row.
StatusesNamed(name) == {s \in DOMAIN statuses : statuses[s].name = name}
StatusesCompleted == {s \in DOMAIN statuses : statuses[s].is_completed_status}

\* Requests arrive in slot order.
CanReceive(r) ==
    /\ reqs[r].pc = "idle"
    /\ \A p \in 1..(r - 1) : reqs[p].pc # "idle"

-----------------------------------------------------------------------------
\* POST /staff/api/action

\* 1. chef_ready: set the station flag named by `extra`, then notify, then commit.
chef_ready(q) ==
    LET q1 == IF q.extra = "kitchen" THEN SetAttr(q, "kitchen_done", TRUE)
              ELSE IF q.extra = "bar" THEN SetAttr(q, "bar_done", TRUE)
              ELSE q
    IN  [q1 EXCEPT !.pc = "station_notify"]

\* 2. accept_order: refuse when the loaded order already has a waiter; otherwise
\* take it and move it to the "processing" status `proc` (None: no such row).
accept_order(q, proc) ==
    IF q.obj.accepted_by_waiter_id # None THEN Respond(q, "already_accepted")
    ELSE LET q1 == SetAttr(q, "accepted_by_waiter_id", q.emp)
             q2 == IF proc # None
                   THEN AddHistory(SetAttr(q1, "status_id", proc), q.oid, proc)
                   ELSE q1
         IN  [q2 EXCEPT !.pc = "commit"]

\* (pay_order registering the debt whatever the payment method)
pay_order_AlwaysDebt(q, final) ==
    IF final = None THEN Respond(q, "status_config_error")
    ELSE IF q.obj.status_id \notin DOMAIN statuses
    THEN Respond(q, "error")
    ELSE LET q1 == SetAttr(SetAttr(q, "status_id", final), "payment_method", q.extra)
         IN  [AddHistory(RegisterEmployeeDebt(LinkOrderToShift(q1)), q.oid, final)
                 EXCEPT !.pc = "commit"]

\* 3. pay_order: close the order with the completed status `final` (None: no
\* such row), record the payment method, link the shift and, for cash, the debt.
pay_order(q, final) ==
    IF final = None THEN Respond(q, "status_config_error")
    ELSE IF q.obj.status_id \notin DOMAIN statuses
    THEN Respond(q, "error")        \* order.status is None: order.status.name raises
    ELSE LET q1 == SetAttr(SetAttr(q, "status_id", final), "payment_method", q.extra)
             q2 == LinkOrderToShift(q1)
             q3 == IF q.extra = "cash" THEN RegisterEmployeeDebt(q2) ELSE q2
         IN  [AddHistory(q3, q.oid, final) EXCEPT !.pc = "commit"]

\* (change_status treating a missing target row as a status that is not completed)
change_status_Unchecked(q) ==
    IF q.obj.status_id \notin DOMAIN statuses THEN Respond(q, "error")
    ELSE LET q1 == SetAttr(q, "status_id", q.extra)
             q2 == IF q.extra \in DOMAIN statuses /\ statuses[q.extra].is_completed_status
                   THEN LinkOrderToShift(q1) ELSE q1
         IN  [AddHistory(q2, q.oid, q.extra) EXCEPT !.pc = "commit"]

\* 4. change_status: set status_id to the requested id; a completed target links
\* the shift and, for a cash order, the debt.
change_status(q) ==
    LET new_status_id == q.extra
    IN  IF q.obj.status_id \notin DOMAIN statuses
        THEN Respond(q, "error")    \* order.status is None: order.status.name raises
        ELSE IF new_status_id \notin DOMAIN statuses
        THEN Respond(q, "error")    \* new_status is None: new_status.is_completed_status raises
        ELSE LET q1 == SetAttr(q, "status_id", new_status_id)
                 q2 == IF statuses[new_status_id].is_completed_status
                       THEN LET l == LinkOrderToShift(q1)
                            IN  IF q.obj.payment_method = "cash"
                                THEN RegisterEmployeeDebt(l) ELSE l
                       ELSE q1
             IN  [AddHistory(q2, q.oid, new_status_id) EXCEPT !.pc = "commit"]

Actions == {"chef_ready", "accept_order", "pay_order", "change_status", "unknown"}

\* The values of `extra` a client sends with each action.
Extras(action) ==
    CASE action = "chef_ready" -> {"kitchen", "bar"}
      [] action = "pay_order" -> {"cash", "card"}
      [] action = "change_status" -> DOMAIN DefaultStatuses \cup {SetMax(DOMAIN DefaultStatuses) + 1}
      [] OTHER -> {"none"}

\* Order ids a client may name: the existing ones and one that does not exist.
OrderIds == DOMAIN orders \cup {SetMax(DOMAIN orders) + 1}

OrNone(S) == IF S = {} THEN {None} ELSE S

\* The handler from the request's arrival to its first wait after the order is
\* loaded: session.get(Order), the action's checks and its in-session changes.
handle_action_api(r, employee, action, order_id, extra) ==
    /\ CanReceive(r)
    /\ LET q0 == [Idle EXCEPT !.kind = action, !.emp = employee,
                              !.oid = order_id, !.extra = extra]
       IN  IF order_id \notin DOMAIN orders
           THEN reqs' = [reqs EXCEPT ![r] = Respond(q0, "not_found")]
           ELSE LET q == [q0 EXCEPT !.obj = orders[order_id], !.snap = orders[order_id]]
                IN  CASE action = "chef_ready" ->
                            reqs' = [reqs EXCEPT ![r] = chef_ready(q)]
                      [] action = "accept_order" ->
                            \E proc \in OrNone(StatusesNamed(NameProcessing)) :
                                reqs' = [reqs EXCEPT ![r] = accept_order(q, proc)]
                      [] action = "pay_order" ->
                            \E final \in OrNone(StatusesCompleted) :
                                reqs' = [reqs EXCEPT ![r] = pay_order(q, final)]
                      [] action = "change_status" ->
                            reqs' = [reqs EXCEPT ![r] = change_status(q)]
                      [] OTHER ->
                            reqs' = [reqs EXCEPT ![r] = Respond(q, "unknown_action")]
    /\ UNCHANGED <<statuses, orders, history, view>>

\* await notify_station_completion(...), before the commit of chef_ready.
notify_station_completion(r) ==
    /\ reqs[r].pc = "station_notify"
    /\ \E ok \in BOOLEAN :
        reqs' = [reqs EXCEPT ![r] =
                    IF ok THEN [@ EXCEPT !.pc = "commit"]
                    ELSE Respond([@ EXCEPT !.notify_failed = TRUE], "error")]
    /\ UNCHANGED <<statuses, orders, history, view>>

\* The UPDATE the flush emits: the dirty columns of the object, nothing else.
Flushed(row, q) == [c \in DOMAIN row |-> IF c \in q.dirty THEN q.obj[c] ELSE row[c]]

\* After the commit chef_ready answers; the other actions notify first.
AfterCommit(q) ==
    IF q.kind = "chef_ready" THEN Respond([q EXCEPT !.committed = TRUE], "success")
    ELSE [q EXCEPT !.committed = TRUE, !.pc = "notify"]

\* await session.commit(): the session's changes become the persisted state.
commit(r) ==
    /\ reqs[r].pc = "commit"
    /\ orders' = [orders EXCEPT ![reqs[r].oid] = Flushed(@, reqs[r])]
    /\ history' = history \o reqs[r].hist
    /\ reqs' = [reqs EXCEPT ![r] = AfterCommit(@)]
    /\ UNCHANGED <<statuses, view>>

\* await session.commit() under an isolation level that refuses to update a row
\* another transaction changed since this one read it: the commit raises.
commit_conflict(r) ==
    /\ reqs[r].pc = "commit"
    /\ reqs[r].dirty # {}
    /\ orders[reqs[r].oid] # reqs[r].snap
    /\ reqs' = [reqs EXCEPT ![r] = Respond(@, "error")]
    /\ UNCHANGED <<statuses, orders, history, view>>

\* await notify_all_parties_on_status_change(...), after the commit.
notify_all_parties_on_status_change(r) ==
    /\ reqs[r].pc = "notify"
    /\ \E ok \in BOOLEAN :
        reqs' = [reqs EXCEPT ![r] =
                    IF ok THEN Respond(@, "success")
                    ELSE Respond([@ EXCEPT !.notify_failed = TRUE], "error")]
    /\ UNCHANGED <<statuses, orders, history, view>>

-----------------------------------------------------------------------------
\* POST /staff/api/order/create

\* products_map: the Product rows whose id occurs in the cart.
ProductsMap(cart) ==
    Restrict(Products, {cart[i].id : i \in DOMAIN cart} \cap DOMAIN Products)

\* (the check without the quantity test's strictness)
EntryCounts_ZeroQty(products_map, pid, qty) == pid \in DOMAIN products_map /\ qty >= 0

\* The cart entries the loop turns into an OrderItem.
EntryCounts(products_map, pid, qty) == pid \in DOMAIN products_map /\ qty > 0

\* items_obj after the loop over the cart.
RECURSIVE ItemsObj(_, _)
ItemsObj(cart, products_map) ==
    IF cart = <<>> THEN <<>>
    ELSE LET pid == Head(cart).id
             qty == Head(cart).qty
             rest == ItemsObj(Tail(cart), products_map)
         IN  IF EntryCounts(products_map, pid, qty)
             THEN <<OrderItem(pid, qty, products_map[pid].price,
                              products_map[pid].preparation_area)>> \o rest
             ELSE rest

\* total after the loop over the cart: total += prod.price * qty.
RECURSIVE Total(_, _)
Total(cart, products_map) ==
    IF cart = <<>> THEN 0
    ELSE LET pid == Head(cart).id
             qty == Head(cart).qty
         IN  (IF EntryCounts(products_map, pid, qty) THEN products_map[pid].price * qty ELSE 0)
             + Total(Tail(cart), products_map)

\* The value of a column the Order(...) constructor leaves to the table's default.
DefaultPaymentMethods == {"cash", "none"}

\* The handler up to session.add(order): validation, the cart loop and the new
\* Order with the "Новий" status `new_status` (None: no such row).
create_waiter_order(r, employee, table_id, cart) ==
    /\ CanReceive(r)
    /\ LET q == [Idle EXCEPT !.kind = "create", !.emp = employee, !.cart = cart]
           products_map == ProductsMap(cart)
           items_obj == ItemsObj(cart, products_map)
           total == Total(cart, products_map)
       IN  IF table_id \notin DOMAIN Tables \/ cart = <<>>
           THEN reqs' = [reqs EXCEPT ![r] = Respond(q, "invalid_data")]
           ELSE IF items_obj = <<>>
           THEN reqs' = [reqs EXCEPT ![r] = Respond(q, "cart_empty")]
           ELSE \E new_status \in OrNone(StatusesNamed(NameNew)),
                   pm \in DefaultPaymentMethods :
                    LET status_id == IF new_status # None THEN new_status
                                     ELSE FallbackStatusId
                    IN  reqs' = [reqs EXCEPT ![r] =
                            [q EXCEPT !.pc = "commit_new",
                                      !.obj = OrderRow(status_id, table_id, employee,
                                                       pm, total, items_obj)]]
    /\ UNCHANGED <<statuses, orders, history, view>>

\* session.flush() gives the order its id; the history row and the commit follow.
commit_new_order(r) ==
    /\ reqs[r].pc = "commit_new"
    /\ LET id == SetMax(DOMAIN orders \cup {0}) + 1
       IN  /\ orders' = [o \in DOMAIN orders \cup {id} |->
                            IF o = id THEN reqs[r].obj ELSE orders[o]]
           /\ history' = Append(history, [order_id |-> id,
                                          status_id |-> reqs[r].obj.status_id,
                                          actor |-> reqs[r].emp])
           /\ reqs' = [reqs EXCEPT ![r] =
                          [@ EXCEPT !.pc = "notify_new", !.oid = id, !.committed = TRUE]]
    /\ UNCHANGED <<statuses, view>>

\* The same commit in a store that enforces the reference Order.status_id ->
\* OrderStatus.id: inserting the fallback status id without such a row raises.
commit_new_order_rejected(r) ==
    /\ reqs[r].pc = "commit_new"
    /\ reqs[r].obj.status_id \notin DOMAIN statuses
    /\ reqs' = [reqs EXCEPT ![r] = Respond(@, "error")]
    /\ UNCHANGED <<statuses, orders, history, view>>

\* await notify_new_order_to_staff(...), after the commit.
notify_new_order_to_staff(r) ==
    /\ reqs[r].pc = "notify_new"
    /\ \E ok \in BOOLEAN :
        reqs' = [reqs EXCEPT ![r] =
                    IF ok THEN Respond(@, "success")
                    ELSE Respond([@ EXCEPT !.notify_failed = TRUE], "error")]
    /\ UNCHANGED <<statuses, orders, history, view>>

-----------------------------------------------------------------------------
\* GET /staff/api/data and GET /staff/api/table/{table_id}/orders: the queues

\* The ids of a set of orders as a sequence, ascending (order_by(Order.id.asc())).
RECURSIVE Asc(_)
Asc(S) == IF S = {} THEN <<>>
          ELSE LET m == CHOOSE x \in S : \A y \in S : x <= y
               IN  <<m>> \o Asc(S \ {m})

\* ... and descending (order_by(Order.id.desc())).
RECURSIVE Desc(_)
Desc(S) == IF S = {} THEN <<>>
           ELSE LET m == SetMax(S) IN <<m>> \o Desc(S \ {m})

\* Ids of the statuses that close an order.
final_ids ==
    {s \in DOMAIN statuses :
        statuses[s].is_completed_status \/ statuses[s].is_cancelled_status}

\* (the kitchen filter left out)
KitchenItem_Any(item) == TRUE

\* The kitchen shows what is not a bar item, the bar what is one.
KitchenItem(item) == item.preparation_area # "bar"
BarItem(item) == item.preparation_area = "bar"

\* Positions in o.items of the items a station's card lists.
StationItems(items, station) ==
    LET Keep(i) == IF station = "kitchen" THEN KitchenItem(items[i]) ELSE BarItem(items[i])
        F[n \in 0..Len(items)] ==
            IF n = 0 THEN <<>>
            ELSE IF Keep(n) THEN Append(F[n - 1], n) ELSE F[n - 1]
    IN  F[Len(items)]

\* The orders a station's query returns.
KitchenOrders ==
    {o \in DOMAIN orders :
        /\ orders[o].status_id \in {s \in DOMAIN statuses : statuses[s].visible_to_chef}
        /\ ~orders[o].kitchen_done}
BarOrders ==
    {o \in DOMAIN orders :
        /\ orders[o].status_id \in {s \in DOMAIN statuses : statuses[s].visible_to_bartender}
        /\ ~orders[o].bar_done}

\* One card per returned order that has an item for the station.
StationCards(ids, station) ==
    LET Card(o) == [id |-> o, station |-> station,
                    items |-> StationItems(orders[o].items, station)]
        RECURSIVE Cards(_)
        Cards(seq) == IF seq = <<>> THEN <<>>
                      ELSE IF Card(Head(seq)).items # <<>>
                      THEN <<Card(Head(seq))>> \o Cards(Tail(seq))
                      ELSE Cards(Tail(seq))
    IN  Cards(Asc(ids))

\* The kitchen group, then the bar group, each for a role that receives it.
_get_production_orders(role) ==
    (IF role.can_receive_kitchen_orders THEN StationCards(KitchenOrders, "kitchen") ELSE <<>>)
    \o (IF role.can_receive_bar_orders THEN StationCards(BarOrders, "bar") ELSE <<>>)

\* The open orders assigned to the courier, newest first.
_get_courier_orders(employee_id) ==
    Desc({o \in DOMAIN orders :
            /\ orders[o].courier_id = employee_id
            /\ orders[o].status_id \notin final_ids})

\* The open orders; for a waiter only the ones accepted by them or on their tables.
_get_general_orders(employee_id, role) ==
    LET tables_sub == {t \in DOMAIN Tables : employee_id \in Tables[t].assigned_waiters}
    IN  Desc({o \in DOMAIN orders :
                /\ orders[o].status_id \notin final_ids
                /\ role.can_serve_tables =>
                      \/ orders[o].accepted_by_waiter_id = employee_id
                      \/ orders[o].table_id \in tables_sub})

\* The waiter's tables, each with the number of its open orders.
TablesView(employee_id) ==
    LET mine == {t \in DOMAIN Tables : employee_id \in Tables[t].assigned_waiters}
        active_count(t) ==
            Cardinality({o \in DOMAIN orders :
                            /\ orders[o].table_id = t
                            /\ orders[o].status_id \notin final_ids})
    IN  [t \in mine |-> active_count(t)]

\* The open orders of a table, newest first.
get_table_orders_api(table_id) ==
    Desc({o \in DOMAIN orders :
            /\ orders[o].table_id = table_id
            /\ orders[o].status_id \notin final_ids})

NoView == [view |-> "none"]

\* A card or a list entry renders o.status.name: an order whose status row does
\* not exist makes the endpoint fail.
Renders(ids) == \A i \in DOMAIN ids : orders[ids[i]].status_id \in DOMAIN statuses

Roles == [can_serve_tables : BOOLEAN, can_receive_kitchen_orders : BOOLEAN,
          can_receive_bar_orders : BOOLEAN, can_be_assigned : BOOLEAN]

\* get_staff_data: the response for `v`, for an employee with `role`.
StaffData(v, employee_id, role, is_on_shift) ==
    IF ~is_on_shift THEN [view |-> "not_on_shift"]
    ELSE IF v = "tables" /\ role.can_serve_tables
    THEN [view |-> "tables", tables |-> TablesView(employee_id)]
    ELSE IF v = "production"
    THEN [view |-> "production", cards |-> _get_production_orders(role)]
    ELSE IF v = "delivery" /\ role.can_be_assigned
    THEN IF Renders(_get_courier_orders(employee_id))
         THEN [view |-> "delivery", ids |-> _get_courier_orders(employee_id)]
         ELSE [view |-> "error"]
    ELSE IF v = "orders"
    THEN IF Renders(_get_general_orders(employee_id, role))
         THEN [view |-> "orders", ids |-> _get_general_orders(employee_id, role)]
         ELSE [view |-> "error"]
    ELSE [view |-> "unknown"]

\* The queues only read: a run observes one response.
get_staff_data(v, employee_id, role, is_on_shift) ==
    /\ view = NoView
    /\ view' = StaffData(v, employee_id, role, is_on_shift)
    /\ UNCHANGED <<statuses, orders, history, reqs>>

table_orders(table_id) ==
    /\ view = NoView
    /\ view' = IF Renders(get_table_orders_api(table_id))
               THEN [view |-> "table_orders", ids |-> get_table_orders_api(table_id)]
               ELSE [view |-> "error"]
    /\ UNCHANGED <<statuses, orders, history, reqs>>

-----------------------------------------------------------------------------
\* The system

Slots == 1..MaxReq

CartEntries == [id : DOMAIN Products \cup {SetMax(DOMAIN Products) + 1}, qty : -1..MaxQty]

SeqsUpTo(S, n) == UNION {[1..k -> S] : k \in 0..n}

Carts == SeqsUpTo(CartEntries, MaxCart)

TableIds == DOMAIN Tables \cup {SetMax(DOMAIN Tables) + 1}

\* An order placed through another channel, to be paid in cash, not yet taken
\* by a waiter.
InitialOrder(status_id) ==
    OrderRow(status_id, 1, None, "cash", 8,
             <<OrderItem(1, 1, 5, "kitchen"), OrderItem(2, 1, 3, "bar")>>)

Init ==
    /\ statuses \in StatusConfigs
    /\ orders = [o \in {1} |-> InitialOrder(CHOOSE s \in DOMAIN statuses :
                                               \A t \in DOMAIN statuses : s <= t)]
    /\ history = <<>>
    /\ reqs = [r \in Slots |-> Idle]
    /\ view = NoView

ActionRequest ==
    \E r \in Slots :
        /\ CanReceive(r)
        /\ \E e \in EmployeeIds, action \in Actions, order_id \in OrderIds :
            \E extra \in Extras(action) : handle_action_api(r, e, action, order_id, extra)

\* Carts of the running system: one that yields an order, one that is filtered out.
PlainCarts == {<<[id |-> 1, qty |-> 1]>>, <<[id |-> 1, qty |-> 0]>>}

CreateRequest ==
    \E r \in Slots :
        /\ CanReceive(r)
        /\ \E e \in EmployeeIds, table_id \in DOMAIN Tables, cart \in PlainCarts :
            create_waiter_order(r, e, table_id, cart)

Next ==
    \/ ActionRequest
    \/ CreateRequest
    \/ \E r \in Slots : notify_station_completion(r)
    \/ \E r \in Slots : commit(r)
    \/ \E r \in Slots : commit_conflict(r)
    \/ \E r \in Slots : notify_all_parties_on_status_change(r)
    \/ \E r \in Slots : commit_new_order(r)
    \/ \E r \in Slots : commit_new_order_rejected(r)
    \/ \E r \in Slots : notify_new_order_to_staff(r)

Spec == Init /\ [][Next]_vars

-----------------------------------------------------------------------------
\* Order creation on its own: one request with any cart.

NextCreate ==
    \/ /\ CanReceive(1)
       /\ \E e \in EmployeeIds, table_id \in TableIds, cart \in Carts :
            create_waiter_order(1, e, table_id, cart)
    \/ commit_new_order(1)
    \/ commit_new_order_rejected(1)
    \/ notify_new_order_to_staff(1)

SpecCreate == Init /\ [][NextCreate]_vars

-----------------------------------------------------------------------------
\* The queues on their own: any status configuration, any order.

\* Two status rows with every combination of the flags.
ViewStatusConfigs ==
    {[s \in {1, 2} |->
        StatusRow(IF s = 1 THEN NameNew ELSE NameDelivered,
                  f[s][1], f[s][2], f[s][3], f[s][4])] :
     f \in [{1, 2} -> BOOLEAN \X BOOLEAN \X BOOLEAN \X BOOLEAN]}

ItemChoices ==
    {OrderItem(1, 1, 5, "kitchen"), OrderItem(2, 1, 3, "bar"), OrderItem(1, 1, 5, "none")}

\* Order rows for the station queues, which read the status, the station flags
\* and the items ...
StationRows ==
    {[OrderRow(s, None, None, "cash", 0, items) EXCEPT
          !.kitchen_done = kd, !.bar_done = bd] :
     s \in 1..2, kd \in BOOLEAN, bd \in BOOLEAN,
     items \in SeqsUpTo(ItemChoices, MaxItems)}

\* ... and for the other queues, which read the status (3: a status id without
\* a row) and the references to the table, the waiter and the courier.
ReferenceRows ==
    {[OrderRow(s, t, a, "cash", 5, <<OrderItem(1, 1, 5, "kitchen")>>) EXCEPT
          !.courier_id = c] :
     s \in 1..3, t \in {None, 1}, a \in {None, 1}, c \in {None, 1}}

InitView ==
    /\ statuses \in ViewStatusConfigs
    /\ \E row \in StationRows \cup ReferenceRows : orders = [o \in {1} |-> row]
    /\ history = <<>>
    /\ reqs = [r \in Slots |-> Idle]
    /\ view = NoView

Role(serve, kitchen, bar, assigned) ==
    [can_serve_tables |-> serve, can_receive_kitchen_orders |-> kitchen,
     can_receive_bar_orders |-> bar, can_be_assigned |-> assigned]

\* The staff who open the application: a waiter, a cook, a bartender, a cook who
\* also tends the bar, a courier, an operator, and a waiter who is off shift.
Staff ==
    {[id |-> 1, role |-> Role(TRUE, FALSE, FALSE, FALSE), is_on_shift |-> TRUE],
     [id |-> 2, role |-> Role(FALSE, TRUE, FALSE, FALSE), is_on_shift |-> TRUE],
     [id |-> 2, role |-> Role(FALSE, FALSE, TRUE, FALSE), is_on_shift |-> TRUE],
     [id |-> 2, role |-> Role(FALSE, TRUE, TRUE, FALSE), is_on_shift |-> TRUE],
     [id |-> 1, role |-> Role(FALSE, FALSE, FALSE, TRUE), is_on_shift |-> TRUE],
     [id |-> 2, role |-> Role(FALSE, FALSE, FALSE, FALSE), is_on_shift |-> TRUE],
     [id |-> 1, role |-> Role(TRUE, FALSE, FALSE, FALSE), is_on_shift |-> FALSE]}

NextView ==
    \/ /\ view = NoView
       /\ \E v \in {"tables", "production", "delivery", "orders", "other"}, e \in Staff :
            get_staff_data(v, e.id, e.role, e.is_on_shift)
    \/ \E table_id \in TableIds : table_orders(table_id)

SpecView == InitView /\ [][NextView]_vars

-----------------------------------------------------------------------------
\* The queues over a store that holds many orders.

\* n dine-in orders of which the oldest `closed` are delivered and the others
\* are new, all on `table_id` and taken by `accepted`.
ManyOrders(n, closed, table_id, accepted) ==
    [o \in 1..n |->
        OrderRow(IF o <= closed THEN 3 ELSE 1, table_id, accepted, "cash", 5,
                 <<OrderItem(1, 1, 5, "kitchen")>>)]

InitOrders ==
    /\ statuses = DefaultStatuses
    /\ \E n \in 0..MaxOrders :
        \E closed \in 0..n, table_id \in {None, 1}, accepted \in {None, 1, 2} :
            orders = ManyOrders(n, closed, table_id, accepted)
    /\ history = <<>>
    /\ reqs = [r \in Slots |-> Idle]
    /\ view = NoView

SpecOrders == InitOrders /\ [][NextView]_vars

-----------------------------------------------------------------------------
\* POST /staff/login

Digits == {"1", "2"}

\* Characters of a submitted phone: digits and a character that is not a digit.
PhoneChars == Digits \cup {"+"}

\* What a password hashes to; verify_password accepts the password a hash was
\* made from and no other.
HashOf(password) == <<"hash", password>>
verify_password(password, password_hash) == password_hash = HashOf(password)

\* Employee rows as the login reads them: employee 1 has a password, employee 2
\* has none yet (password_hash is None).
EmployeeCredentials ==
    [e \in {1, 2} |->
        [phone_number |-> IF e = 1 THEN <<"1", "2">> ELSE <<"2", "1">>,
         password_hash |-> IF e = 1 THEN HashOf("secret") ELSE <<>>]]

\* clean_phone: the digits of the submitted phone, in order.
CleanPhone(phone) == SelectSeq(phone, LAMBDA c : c \in Digits)

\* phone_number ILIKE '%' || clean_phone || '%'
ILikeContains(phone_number, clean_phone) ==
    \E i \in 0..(Len(phone_number) - Len(clean_phone)) :
        SubSeq(phone_number, i + 1, i + Len(clean_phone)) = clean_phone

Passwords == {"admin", "secret", "guess"}

\* The handler after the lookup gave `employee` (None: no row matched).
LoginResponse(employee, phone, password) ==
    LET Refuse == [view |-> "login", status |-> 400, cookie |-> None,
                   employee |-> employee, phone |-> phone, password |-> password]
        Admit == [view |-> "login", status |-> 303, cookie |-> employee,
                  employee |-> employee, phone |-> phone, password |-> password]
    IN  IF employee = None THEN Refuse
        ELSE IF EmployeeCredentials[employee].password_hash = <<>>
        THEN IF password = "admin" THEN Admit ELSE Refuse
        ELSE IF ~verify_password(password, EmployeeCredentials[employee].password_hash)
        THEN Refuse
        ELSE Admit

\* login_action: .first() of the matching rows, in whatever order the store
\* returns them.
login_action(phone, password) ==
    /\ view = NoView
    /\ LET clean_phone == CleanPhone(phone)
           found == {e \in DOMAIN EmployeeCredentials :
                        ILikeContains(EmployeeCredentials[e].phone_number, clean_phone)}
       IN  \E employee \in OrNone(found) :
               view' = LoginResponse(employee, phone, password)
    /\ UNCHANGED <<statuses, orders, history, reqs>>

NextLogin ==
    /\ view = NoView
    /\ \E phone \in SeqsUpTo(PhoneChars, MaxPhone), password \in Passwords :
            login_action(phone, password)

SpecLogin == Init /\ [][NextLogin]_vars

-----------------------------------------------------------------------------
\* The dispatcher on an order that a waiter created.

\* The persisted state after create_waiter_order committed the cart `cart` of
\* employee 1 for table 1: the order and its creation entry in the history.
InitAudit ==
    /\ statuses \in StatusConfigs
    /\ LET cart == <<[id |-> 1, qty |-> 1]>>
           status_id == IF StatusesNamed(NameNew) # {}
                        THEN CHOOSE s \in StatusesNamed(NameNew) : TRUE
                        ELSE FallbackStatusId
       IN  /\ orders = [o \in {1} |->
                            OrderRow(status_id, 1, 1, "cash",
                                     Total(cart, ProductsMap(cart)),
                                     ItemsObj(cart, ProductsMap(cart)))]
           /\ history = <<[order_id |-> 1, status_id |-> status_id, actor |-> 1]>>
    /\ reqs = [r \in Slots |-> Idle]
    /\ view = NoView

SpecAudit == InitAudit /\ [][Next]_vars

-----------------------------------------------------------------------------
\* Claims

Done(r) == reqs[r].pc = "done"

\* accept_order requests on order o
Accepts(o) == {r \in Slots : reqs[r].kind = "accept_order" /\ reqs[r].oid = o}

\* C1: when two or more accept_order requests from different employees on an
\* order that nobody had accepted have all been answered, either with success
\* or with the 'already accepted' conflict, exactly one of them got success.
C1_ExactlyOneAcceptSucceeds ==
    LET A == Accepts(1)
    IN  (/\ Cardinality(A) >= 2
         /\ \A r \in A : Done(r) /\ reqs[r].resp \in {"success", "already_accepted"}
         /\ \A r1, r2 \in A : r1 # r2 => reqs[r1].emp # reqs[r2].emp)
        => Cardinality({r \in A : reqs[r].resp = "success"}) = 1

\* C2: a step never clears an order's accepted_by_waiter_id nor replaces it
\* with another employee's id.
C2_AcceptedWaiterNeverChanges ==
    [][\A o \in DOMAIN orders :
          orders[o].accepted_by_waiter_id # None =>
              orders'[o].accepted_by_waiter_id = orders[o].accepted_by_waiter_id]_vars

Terminal(o) == orders[o].status_id \in final_ids

\* Order o occurs in the response held in `view`.
Shown(o) ==
    \/ /\ view.view = "production"
       /\ \E i \in DOMAIN view.cards : view.cards[i].id = o
    \/ /\ view.view \in {"delivery", "orders", "table_orders"}
       /\ \E i \in DOMAIN view.ids : view.ids[i] = o
    \/ /\ view.view = "tables"
       /\ orders[o].table_id \in DOMAIN view.tables
       /\ view.tables[orders[o].table_id] >
             Cardinality({p \in DOMAIN orders \ {o} : orders[p].table_id = orders[o].table_id})

\* C3: an order whose status is completed or cancelled is in no queue response
\* (production, delivery, orders, a table's orders) and in no table's count.
C3_TerminalOrdersHidden ==
    \A o \in DOMAIN orders : Terminal(o) => ~Shown(o)

-----------------------------------------------------------------------------
\* C4: order creation

Creates == {r \in Slots : reqs[r].kind = "create"}

\* The cart positions that name an existing product with a quantity above zero.
Qualifying(cart) ==
    {i \in DOMAIN cart : cart[i].id \in DOMAIN Products /\ cart[i].qty >= 1}

RECURSIVE SumOver(_, _)
SumOver(I, cart) ==
    IF I = {} THEN 0
    ELSE LET i == CHOOSE j \in I : TRUE
         IN  Products[cart[i].id].price * cart[i].qty + SumOver(I \ {i}, cart)

\* The k-th smallest element of a set of positions.
RECURSIVE Nth(_, _)
Nth(I, k) == LET m == CHOOSE x \in I : \A y \in I : x <= y
             IN  IF k = 1 THEN m ELSE Nth(I \ {m}, k - 1)

\* C4: the order a cart yields has one item per qualifying entry, in cart order,
\* with the product's price, and its total_price is the sum of price * quantity
\* over these entries; a cart with no qualifying entry is rejected and creates
\* no order.
C4_TotalIsSumOfEffectiveCart ==
    \A r \in Creates :
        LET cart == reqs[r].cart
            Q == Qualifying(cart)
        IN  /\ reqs[r].committed =>
                LET o == orders[reqs[r].oid]
                IN  /\ o.total_price = SumOver(Q, cart)
                    /\ Len(o.items) = Cardinality(Q)
                    /\ \A k \in DOMAIN o.items :
                          LET e == cart[Nth(Q, k)]
                          IN  /\ o.items[k].product_id = e.id
                              /\ o.items[k].quantity = e.qty
                              /\ o.items[k].price_at_moment = Products[e.id].price
            /\ Q = {} =>
                /\ Done(r) /\ reqs[r].resp \in {"invalid_data", "cart_empty"}
                /\ ~reqs[r].committed
                /\ DOMAIN orders = {1}

\* An order was created from a cart that mixes a qualifying entry with an
\* entry that is filtered out.
C4_Witness ==
    \E r \in Creates :
        /\ reqs[r].committed
        /\ Qualifying(reqs[r].cart) # {}
        /\ Qualifying(reqs[r].cart) # DOMAIN reqs[r].cart
        /\ reqs[r].oid \in DOMAIN orders

-----------------------------------------------------------------------------
\* C5: the station queues

\* Item i of order o is listed on a card of `station` in `cards`.
Listed(cards, o, i, station) ==
    \E k \in DOMAIN cards :
        /\ cards[k].id = o /\ cards[k].station = station
        /\ \E j \in DOMAIN cards[k].items : cards[k].items[j] = i

\* Order o is in the work of `station`: its status is visible to the station
\* and the station has not marked it done.
Open(o, station) ==
    /\ orders[o].status_id \in DOMAIN statuses
    /\ IF station = "kitchen"
       THEN statuses[orders[o].status_id].visible_to_chef /\ ~orders[o].kitchen_done
       ELSE statuses[orders[o].status_id].visible_to_bartender /\ ~orders[o].bar_done

\* C5: for a role that receives kitchen and bar orders, no item is listed in
\* both groups; a listed item is in the group of its area ('bar' -> bar, any
\* other area -> kitchen); and every item of an order that is open at the
\* item's station is listed there.
C5_ProductionPartition ==
    \A role \in Roles :
        (role.can_receive_kitchen_orders /\ role.can_receive_bar_orders) =>
        LET cards == _get_production_orders(role)
        IN  \A o \in DOMAIN orders : \A i \in DOMAIN orders[o].items :
                LET bar == orders[o].items[i].preparation_area = "bar"
                    inK == Listed(cards, o, i, "kitchen")
                    inB == Listed(cards, o, i, "bar")
                IN  /\ ~(inK /\ inB)
                    /\ inK => ~bar
                    /\ inB => bar
                    /\ (bar /\ Open(o, "bar")) => inB
                    /\ (~bar /\ Open(o, "kitchen")) => inK

\* The production queue answered with a kitchen card and a bar card of one order.
C5_Witness ==
    /\ view.view = "production"
    /\ \E k1, k2 \in DOMAIN view.cards :
        /\ view.cards[k1].station = "kitchen" /\ view.cards[k2].station = "bar"
        /\ view.cards[k1].id = view.cards[k2].id

-----------------------------------------------------------------------------
\* C6 - C10: the action dispatcher

IsPay(q) == q.kind = "pay_order"

BadStatusChanges ==
    {r \in Slots : reqs[r].kind = "change_status" /\ reqs[r].extra \notin DOMAIN statuses}

\* C7: a change_status to a status id without a row ends with an error, never
\* commits (the persisted status_id and the history stay as they were) and
\* calls neither shift-linking nor debt registration.
C7_UnknownStatusRejected ==
    \A r \in BadStatusChanges :
        /\ Done(r)
        /\ reqs[r].resp \in {"error", "not_found"}
        /\ ~reqs[r].committed
        /\ reqs[r].links = 0 /\ reqs[r].debts = 0

\* Such a request was made on an existing order whose own status is in order.
C7_Witness ==
    \E r \in BadStatusChanges :
        /\ reqs[r].oid \in DOMAIN orders
        /\ orders[reqs[r].oid].status_id \in DOMAIN statuses
        /\ reqs[r].resp = "error"

\* C8: whenever a request's notification failed, its change was committed.
C8_NotifyFailureKeepsMutation ==
    \A r \in Slots : reqs[r].notify_failed => reqs[r].committed

\* The capability the claim names for an action.
Capable(q) ==
    LET role == Employees[q.emp]
    IN  CASE q.kind = "chef_ready" /\ q.extra = "kitchen" -> role.can_receive_kitchen_orders
          [] q.kind = "chef_ready" /\ q.extra = "bar" -> role.can_receive_bar_orders
          [] q.kind \in {"accept_order", "pay_order"} -> role.can_serve_tables
          [] OTHER -> TRUE

\* C9: a commit that changes an order comes from a request whose employee has
\* the action's capability.
C9_OnlyCapableEmployeesMutate ==
    [][\A r \in Slots :
          (reqs[r].pc = "commit" /\ reqs'[r].committed /\ orders' # orders)
              => Capable(reqs[r])]_vars

\* C10: a pay_order request commits only on an order that had a waiter when
\* the request loaded it.
C10_PayOnlyAfterAccept ==
    \A r \in Slots :
        (IsPay(reqs[r]) /\ reqs[r].pc = "notify")
            => reqs[r].snap.accepted_by_waiter_id # None

-----------------------------------------------------------------------------
\* C11 - C14

\* change_status requests that have committed and not yet answered
CommittedStatusChanges ==
    {r \in Slots : reqs[r].kind = "change_status" /\ reqs[r].pc = "notify"}

\* C11: a committed change_status whose target status is completed or cancelled
\* has linked the shift once and has registered the debt once when the order's
\* payment method is cash and not at all otherwise; a committed change_status
\* to any other status has done neither.
C11_TerminalChangeLinksShift ==
    \A r \in CommittedStatusChanges :
        LET q == reqs[r]
        IN  IF q.extra \in final_ids
            THEN /\ q.links = 1
                 /\ q.debts = IF q.snap.payment_method = "cash" THEN 1 ELSE 0
            ELSE q.links = 0 /\ q.debts = 0

\* The open orders, newest first.
OpenOrders == Desc({o \in DOMAIN orders : ~Terminal(o)})

\* C12: the general queue of an employee who cannot serve tables holds at most
\* 30 orders, the most recent open ones, newest first; the queue of an employee
\* who can serve tables holds every open order accepted by them or on one of
\* their tables.
C12_GeneralOrdersCapped ==
    \A e \in Staff :
        LET ids == _get_general_orders(e.id, e.role)
        IN  IF e.role.can_serve_tables
            THEN ids = Desc({o \in DOMAIN orders :
                                /\ ~Terminal(o)
                                /\ \/ orders[o].accepted_by_waiter_id = e.id
                                   \/ /\ orders[o].table_id \in DOMAIN Tables
                                      /\ e.id \in Tables[orders[o].table_id].assigned_waiters})
            ELSE /\ Len(ids) <= 30
                 /\ ids = SubSeq(OpenOrders, 1, IF Len(OpenOrders) < 30
                                                  THEN Len(OpenOrders) ELSE 30)

\* C13: a login that did not resolve an employee, that resolved one without a
\* password, or whose password does not verify against the employee's hash,
\* answers 400 and sets no cookie; so a cookie is issued only to an employee
\* with a password that the submitted one verifies against.
C13_LoginRequiresPassword ==
    view.view = "login" =>
        LET e == view.employee
            verified == /\ e # None
                        /\ EmployeeCredentials[e].password_hash # <<>>
                        /\ verify_password(view.password,
                                           EmployeeCredentials[e].password_hash)
        IN  /\ view.cookie # None => verified
            /\ ~verified => view.status = 400 /\ view.cookie = None

\* The history entries of order o, oldest first.
AuditTrail(o) == SelectSeq(history, LAMBDA h : h.order_id = o)

\* C14: every order has a history entry, and the latest one names the status
\* the persisted order is in.
C14_LastHistoryIsCurrentStatus ==
    \A o \in DOMAIN orders :
        /\ AuditTrail(o) # <<>>
        /\ AuditTrail(o)[Len(AuditTrail(o))].status_id = orders[o].status_id

====
